---- MODULE Spec2Model ----
(***************************************************************************)
(* Model of fetch_all_regions_resources.py: the billing window computed at *)
(* import time, the per-instance cost estimate, the aggregate S3 lookup    *)
(* with its local error recovery, and main's sequential orchestration of   *)
(* the provider calls and of the single write of the CSV report.           *)
(*                                                                         *)
(* Money is kept in micro-dollars (1e-6 $), so that rounding to 4 decimal  *)
(* places (a multiple of 100 micro-dollars) is a real operation.           *)
(***************************************************************************)
EXTENDS Integers, Sequences, FiniteSets, TLC

VARIABLES
    current_day,      \* current_date.day                           (line 23)
    days_in_month,    \* monthrange(year, month)[1]                 (line 24)
    remaining_days,   \* max(days_in_month - current_date.day, 0)   (line 25)
    pc,               \* position of main: enumerate, listing, billing, write, done, crashed
    all_regions,      \* main's all_regions                         (line 144)
    idx,              \* position of main's for loop over all_regions (line 148)
    all_data,         \* main's all_data                            (line 145)
    calls,            \* the external calls made so far, in order, with what each returned
    file,             \* contents of aws_cost_prediction.csv
    exit_status       \* -1 while the process runs, then 0 or 1

vars == <<current_day, days_in_month, remaining_days, pc, all_regions, idx,
          all_data, calls, file, exit_status>>

----------------------------------------------------------------------------
\* Bounds of the model.

MaxRegions == 2      \* regions the inventory provider knows
MaxInstances == 2    \* instances the provider returns over one run

\* Billing windows of the orchestration runs: (day of month, days in month).
SampleWindows == {<<10, 30>>, <<31, 31>>}

\* Amounts the billing provider reports, in micro-dollars: 12.3456, 12.345651
\* and 0.03125 (a tie between 0.0312 and 0.0313 that binary floating point
\* represents exactly).
Amounts == {12345600, 12345651, 31250}

----------------------------------------------------------------------------
\* Program constants.

DiscountedRate == 11600     \* 0.0116 $/h
DefaultRate == 121600       \* 0.1216 $/h
HoursPerDay == 24
MinMonthLength == 28
MaxMonthLength == 31
RoundUnit == 100            \* 4 decimal places, in micro-dollars

RegionNames == <<"us-east-1", "us-west-2", "eu-west-1", "ap-south-1", "sa-east-1">>
Regions == {RegionNames[i] : i \in 1..MaxRegions}
InstanceTypes == {"t2.micro", "m5.large"}
InstanceStates == {"running", "stopped", "terminated"}
InstanceId(n) == "i-" \o ToString(n)

PrevFile == <<<<"previous run">>>>

Header == <<"Service", "Region", "Resource ID", "Type", "State",
            "Price Per Hour", "Accrued Cost", "Predicted Cost">>

----------------------------------------------------------------------------
\* Python's max and round(x, 4).

Max(a, b) == IF a >= b THEN a ELSE b

\* round(x, 4) of a non-negative amount: to the nearest multiple of 1e-4,
\* an exact tie going to the even multiple.
Round4(x) ==
    LET q == x \div RoundUnit
        r == x % RoundUnit
    IN  IF 2 * r < RoundUnit THEN q * RoundUnit
        ELSE IF 2 * r > RoundUnit THEN (q + 1) * RoundUnit
        ELSE IF q % 2 = 0 THEN q * RoundUnit
        ELSE (q + 1) * RoundUnit

----------------------------------------------------------------------------
\* What the providers can answer.  A call either raises, or returns a
\* response; a response may lack the keys the code reads ("malformed").

\* ec2.describe_regions(): the regions in the provider's order.
RegionSeqs ==
    {rs \in UNION {[1..n -> Regions] : n \in 0..MaxRegions} :
        \A i, j \in DOMAIN rs : i # j => rs[i] # rs[j]}

RegionResponses ==
    {[kind |-> "ok", Regions |-> rs] : rs \in RegionSeqs}
    \cup {[kind |-> k, Regions |-> <<>>] : k \in {"raises", "malformed"}}

\* The instances of one listing: k instances, numbered after the `used`
\* instances already returned in this run, each of some type and state.
InstanceSeqs(used, k) ==
    {[i \in 1..k |-> [InstanceId |-> InstanceId(used + i),
                      InstanceType |-> ts[i][1],
                      State |-> ts[i][2]]] :
        ts \in [1..k -> InstanceTypes \X InstanceStates]}

\* The ways k instances are grouped into non-empty reservations: the
\* reservation number of each instance, non-decreasing from 1 in steps of 1.
Groupings(k) ==
    {g \in [1..k -> 1..k] :
        /\ k > 0 => g[1] = 1
        /\ \A i \in 1..(k - 1) : g[i + 1] \in {g[i], g[i] + 1}}

Grouped(insts, g) ==
    LET k == Len(insts)
        n == IF k = 0 THEN 0 ELSE g[k]
        first(r) == CHOOSE i \in 1..k : g[i] = r /\ (i = 1 \/ g[i - 1] # r)
        size(r) == Cardinality({i \in 1..k : g[i] = r})
    IN  [r \in 1..n |-> [Instances |-> [j \in 1..size(r) |-> insts[first(r) + j - 1]]]]

\* ec2_client.describe_instances() for one region.
InstanceResponses(used) ==
    {[kind |-> "ok", Reservations |-> Grouped(insts, g)] :
        <<insts, g>> \in UNION {InstanceSeqs(used, k) \X Groupings(k) :
                                   k \in 0..(MaxInstances - used)}}
    \cup {[kind |-> k, Reservations |-> <<>>] : k \in {"raises", "malformed"}}

\* cost_explorer.get_cost_and_usage(): raises, or a response without a result
\* row, without the amount field, with an amount that is no number, or with
\* an amount.
BillingResponses ==
    {[kind |-> "ok", Amount |-> a] : a \in Amounts}
    \cup {[kind |-> k, Amount |-> 0] :
            k \in {"raises", "no_result_row", "no_amount_field", "bad_amount"}}

----------------------------------------------------------------------------
\* The functions of the script.  A call yields [raised, value]: raised is
\* TRUE when an exception leaves the function.

Returned(v) == [raised |-> FALSE, value |-> v]
Raised == [raised |-> TRUE, value |-> <<>>]

\* Mutant: the operands of the subtraction swapped.
compute_remaining_days_swapped(dim, day) == Max(day - dim, 0)

\* Module level, lines 22-25.
compute_remaining_days(dim, day) == Max(dim - day, 0)

\* Line 86.
price_per_hour(instance_type) ==
    IF instance_type = "t2.micro" THEN DiscountedRate ELSE DefaultRate

\* Mutant: the state of the instance is not looked at.
accrued_cost_any_state(price, state) ==
    Round4(price * (current_day * HoursPerDay))

\* Line 89.
accrued_cost(price, state) ==
    IF state = "running" THEN Round4(price * (current_day * HoursPerDay)) ELSE 0

\* Mutant: the projection stops at today.
predicted_cost_to_date(price) ==
    Round4(price * current_day * HoursPerDay)

\* Line 90.
predicted_cost(price) ==
    Round4(price * days_in_month * HoursPerDay)

\* Lines 81-107: the row of one instance.
instance_row(region, instance) ==
    LET price == price_per_hour(instance.InstanceType)
    IN  <<"EC2", region, instance.InstanceId, instance.InstanceType,
          instance.State, price, accrued_cost(price, instance.State),
          predicted_cost(price)>>

\* Mutant: each row is put in front of ec2_data.
instance_row_list_front(region, instance, ec2_data) ==
    <<instance_row(region, instance)>> \o ec2_data

\* Lines 98-107: ec2_data.append.
append_instance_row(region, instance, ec2_data) ==
    Append(ec2_data, instance_row(region, instance))

\* Line 80: the inner loop, appending to ec2_data.
RECURSIVE for_instances(_, _, _)
for_instances(region, instances, ec2_data) ==
    IF instances = <<>> THEN ec2_data
    ELSE for_instances(region, Tail(instances),
                       append_instance_row(region, Head(instances), ec2_data))

\* Line 79: the outer loop.
RECURSIVE for_reservations(_, _, _)
for_reservations(region, reservations, ec2_data) ==
    IF reservations = <<>> THEN ec2_data
    ELSE for_reservations(region, Tail(reservations),
                          for_instances(region, Head(reservations).Instances, ec2_data))

\* Mutant: a failed listing is returned as an empty one.
get_ec2_instances_swallowed(region, response) ==
    IF response.kind = "ok"
    THEN Returned(for_reservations(region, response.Reservations, <<>>))
    ELSE Returned(<<>>)

\* Lines 64-108: no exception is caught.
get_ec2_instances(region, response) ==
    IF response.kind = "ok"
    THEN Returned(for_reservations(region, response.Reservations, <<>>))
    ELSE Raised

\* Mutant: a failed enumeration is returned as no region.
get_all_regions_swallowed(response) ==
    IF response.kind = "ok" THEN Returned(response.Regions) ELSE Returned(<<>>)

\* Lines 110-116: no exception is caught.
get_all_regions(response) ==
    IF response.kind = "ok" THEN Returned(response.Regions) ELSE Raised

\* Mutant: the try/except is missing.
get_service_cost_uncaught(response) ==
    IF response.kind = "ok" THEN Returned(Round4(response.Amount)) ELSE Raised

\* Mutant: the amount is returned as parsed, not rounded.
get_service_cost_unrounded(response) ==
    IF response.kind = "ok" THEN Returned(response.Amount) ELSE Returned(0)

\* Lines 31-62: every exception is caught and turned into 0.0.
get_service_cost(response) ==
    IF response.kind = "ok" THEN Returned(Round4(response.Amount)) ELSE Returned(0)

\* Lines 154-163: the aggregate row.
s3_row(s3_cost) ==
    <<"S3", "All Regions", "N/A", "Active", "Active", 0, s3_cost, s3_cost>>

\* Mutant: the header row is not written.
write_to_csv_no_header(data) == data

\* Lines 118-137: the file is opened for writing (truncated), then the header
\* and the rows are written.
write_to_csv(data) == <<Header>> \o data

----------------------------------------------------------------------------
\* The run.

Call(op, region, response) == [op |-> op, region |-> region, response |-> response]

\* The calendar: a month has 28 to 31 days and today is one of them.
Windows ==
    {w \in (1..MaxMonthLength) \X (MinMonthLength..MaxMonthLength) : w[1] <= w[2]}

\* Lines 22-25, then `if __name__ == "__main__": main()`.
InitWindow(ws) ==
    \E w \in ws :
        /\ current_day = w[1]
        /\ days_in_month = w[2]
        /\ remaining_days = compute_remaining_days(w[2], w[1])

Init ==
    /\ InitWindow(SampleWindows)
    /\ pc = "enumerate"
    /\ all_regions = <<>>
    /\ idx = 1
    /\ all_data = <<>>
    /\ calls = <<>>
    /\ file = PrevFile
    /\ exit_status = -1

\* An exception that nothing catches ends the process with a traceback.
Uncaught ==
    /\ pc' = "crashed"
    /\ exit_status' = 1

\* Lines 143-145.
MainGetAllRegions ==
    /\ pc = "enumerate"
    /\ \E response \in RegionResponses :
        LET r == get_all_regions(response)
        IN  /\ calls' = Append(calls, Call("describe_regions", "", response))
            /\ IF r.raised
               THEN Uncaught /\ UNCHANGED <<all_regions, idx, all_data>>
               ELSE /\ all_regions' = r.value
                    /\ all_data' = <<>>
                    /\ idx' = 1
                    /\ pc' = IF r.value = <<>> THEN "billing" ELSE "listing"
                    /\ UNCHANGED exit_status
    /\ UNCHANGED <<current_day, days_in_month, remaining_days, file>>

\* Mutant: the report is written inside the loop, after each region.
MainListRegion_writing ==
    /\ pc = "listing"
    /\ LET region == all_regions[idx]
       IN  \E response \in InstanceResponses(Len(all_data)) :
            LET r == get_ec2_instances(region, response)
            IN  /\ calls' = Append(calls, Call("describe_instances", region, response))
                /\ IF r.raised
                   THEN Uncaught /\ UNCHANGED <<idx, all_data, file>>
                   ELSE /\ all_data' = all_data \o r.value
                        /\ file' = write_to_csv(all_data')
                        /\ idx' = idx + 1
                        /\ pc' = IF idx = Len(all_regions) THEN "billing" ELSE "listing"
                        /\ UNCHANGED exit_status
    /\ UNCHANGED <<current_day, days_in_month, remaining_days, all_regions>>

\* Lines 148-150: one iteration of the loop over all_regions.
MainListRegion ==
    /\ pc = "listing"
    /\ LET region == all_regions[idx]
       IN  \E response \in InstanceResponses(Len(all_data)) :
            LET r == get_ec2_instances(region, response)
            IN  /\ calls' = Append(calls, Call("describe_instances", region, response))
                /\ IF r.raised
                   THEN Uncaught /\ UNCHANGED <<idx, all_data>>
                   ELSE /\ all_data' = all_data \o r.value
                        /\ idx' = idx + 1
                        /\ pc' = IF idx = Len(all_regions) THEN "billing" ELSE "listing"
                        /\ UNCHANGED exit_status
    /\ UNCHANGED <<current_day, days_in_month, remaining_days, all_regions, file>>

\* Lines 153-163.
MainServiceCost ==
    /\ pc = "billing"
    /\ \E response \in BillingResponses :
        LET r == get_service_cost(response)
        IN  /\ calls' = Append(calls, Call("get_cost_and_usage", "", response))
            /\ IF r.raised
               THEN Uncaught /\ UNCHANGED all_data
               ELSE /\ all_data' = Append(all_data, s3_row(r.value))
                    /\ pc' = "write"
                    /\ UNCHANGED exit_status
    /\ UNCHANGED <<current_day, days_in_month, remaining_days, all_regions, idx, file>>

\* Lines 166-168, and the normal end of the process.
MainWrite ==
    /\ pc = "write"
    /\ file' = write_to_csv(all_data)
    /\ calls' = Append(calls, Call("write_csv", "", [kind |-> "ok"]))
    /\ pc' = "done"
    /\ exit_status' = 0
    /\ UNCHANGED <<current_day, days_in_month, remaining_days, all_regions, idx, all_data>>

Next ==
    \/ MainGetAllRegions
    \/ MainListRegion
    \/ MainServiceCost
    \/ MainWrite

Spec == Init /\ [][Next]_vars

\* The cost estimate over every billing window: the listing of one region,
\* from the state main is in once one region has been enumerated.
InitEstimate ==
    /\ InitWindow(Windows)
    /\ pc = "listing"
    /\ all_regions = <<RegionNames[1]>>
    /\ idx = 1
    /\ all_data = <<>>
    /\ calls = <<Call("describe_regions", "", [kind |-> "ok", Regions |-> <<RegionNames[1]>>])>>
    /\ file = PrevFile
    /\ exit_status = -1

NextEstimate ==
    \/ MainListRegion
    \/ MainServiceCost
    \/ MainWrite

SpecEstimate == InitEstimate /\ [][NextEstimate]_vars

----------------------------------------------------------------------------
\* Vocabulary of the properties.

CallsOf(ops) == {i \in DOMAIN calls : calls[i].op \in ops}
ListingCalls == CallsOf({"describe_instances"})
InventoryCalls == CallsOf({"describe_regions", "describe_instances"})
BillingCalls == CallsOf({"get_cost_and_usage"})
WriteCalls == CallsOf({"write_csv"})
Failed(i) == calls[i].response.kind # "ok"

\* The report of this run is on disk.
Written == file # PrevFile

\* Where the provider returned each instance: <<call, reservation, instance>>.
ProviderInstances ==
    UNION {UNION {{<<c, r, i>> : i \in DOMAIN calls[c].response.Reservations[r].Instances} :
                     r \in DOMAIN calls[c].response.Reservations} :
              c \in ListingCalls}
InstanceAt(p) == calls[p[1]].response.Reservations[p[2]].Instances[p[3]]
PosOf(id) == CHOOSE p \in ProviderInstances : InstanceAt(p).InstanceId = id
Before(p, q) ==
    \/ p[1] < q[1]
    \/ p[1] = q[1] /\ p[2] < q[2]
    \/ p[1] = q[1] /\ p[2] = q[2] /\ p[3] < q[3]

\* Row `row` is the row of the instance the provider returned at p.
RowOf(row, p) ==
    /\ row[2] = calls[p[1]].region
    /\ row[3] = InstanceAt(p).InstanceId
    /\ row[4] = InstanceAt(p).InstanceType
    /\ row[5] = InstanceAt(p).State

InstanceRows == {k \in DOMAIN all_data : all_data[k][1] = "EC2"}
FromProvider(row) == \E p \in ProviderInstances : RowOf(row, p)

\* y is x rounded to 4 decimal places: a multiple of 1e-4 nearest to x.
IsRound4Of(y, x) ==
    /\ y % RoundUnit = 0
    /\ 2 * (y - x) <= RoundUnit
    /\ 2 * (x - y) <= RoundUnit

TableRate(type) == IF type = "t2.micro" THEN DiscountedRate ELSE DefaultRate

----------------------------------------------------------------------------
\* C1: whenever the billing call failed (it raised, or its response lacks the
\* result row or the amount, or the amount is no number), get_service_cost
\* returned 0.0 and nothing escaped; main appended the aggregate row with that
\* zero cost, its next step is the write, and the written report ends with it.
C1_BillingFailureYieldsZero ==
    \A b \in BillingCalls : Failed(b) =>
        /\ pc \in {"write", "done"}
        /\ exit_status # 1
        /\ all_data # <<>>
        /\ LET row == all_data[Len(all_data)]
           IN  row[1] = "S3" /\ row[7] = 0 /\ row[8] = 0
        /\ pc = "write" => ENABLED MainWrite
        /\ pc = "done" => Written /\ file[Len(file)] = all_data[Len(all_data)]

C1_Witness ==
    /\ pc = "done"
    /\ \E b \in BillingCalls : calls[b].response.kind = "no_result_row"
    /\ Len(file) > 2
    /\ file[Len(file)][1] = "S3"
    /\ file[Len(file)][7] = 0

\* C2 as stated: no run ends with an error, whatever the providers do.
C2_NeverNonZeroExit == pc # "crashed" /\ exit_status \in {-1, 0}

\* C2, amended: a failed billing lookup never makes the run fail, but a failed
\* region enumeration or instance listing is not caught: the run ends there
\* with a non-zero exit status, and a run ends with status 0 only if every
\* inventory call succeeded.
C2_ExitStatus ==
    /\ (\E i \in InventoryCalls : Failed(i)) => pc = "crashed" /\ exit_status = 1
    /\ exit_status = 1 => Failed(Len(calls)) /\ Len(calls) \in InventoryCalls
    /\ exit_status = 0 => pc = "done" /\ \A i \in InventoryCalls : ~Failed(i)
    /\ (\E b \in BillingCalls : Failed(b)) => exit_status # 1
    /\ pc = "done" => exit_status = 0

C2_Witness ==
    /\ pc = "crashed"
    /\ exit_status = 1
    /\ Len(calls) = 3
    /\ calls[3].op = "describe_instances"
    /\ Failed(3)
    /\ ~Failed(2)

\* C3: a failed instance listing is never taken for an empty region: the
\* error ends main at that call, no row and no later call follows it, and no
\* report is written by a run in which a listing failed.
C3_FailedListingNotEmpty ==
    /\ \A c \in ListingCalls : Failed(c) =>
        /\ pc = "crashed"
        /\ c = Len(calls)
        /\ idx = c - 1
        /\ ~Written
        /\ Len(all_data) = Cardinality(ProviderInstances)
    /\ Written => (\A c \in ListingCalls : ~Failed(c))
                  /\ Cardinality(ListingCalls) = Len(all_regions)

C3_Witness ==
    /\ pc = "crashed"
    /\ Len(calls) = 3
    /\ calls[3].op = "describe_instances"
    /\ calls[3].response.kind = "raises"
    /\ Len(all_data) = 1
    /\ ~Written

\* C4: the data rows of a written report are the instance rows, in the order
\* the provider returned them (regions in enumeration order, reservations in
\* order, instances in order inside a reservation), followed by the aggregate
\* row.
C4_ReportOrder ==
    Written =>
        LET n == Len(file)
        IN  /\ n >= 2
            /\ file[n][1] = "S3"
            /\ n - 2 = Cardinality(ProviderInstances)
            /\ \A c \in ListingCalls : calls[c].region = calls[1].response.Regions[c - 1]
            /\ \A k \in 2..(n - 1) : file[k][1] = "EC2" /\ FromProvider(file[k])
            /\ \A j, k \in 2..(n - 1) :
                 j < k => Before(PosOf(file[j][3]), PosOf(file[k][3]))

C4_Witness ==
    /\ Written
    /\ Len(file) = 4
    /\ Len(all_regions) = 2
    /\ file[2][2] = all_regions[1]
    /\ file[3][2] = all_regions[1]
    /\ Len(calls[2].response.Reservations) = 1

\* C5: a written report starts with the header, and has one data row per
\* instance the provider returned over all regions plus one aggregate row,
\* each instance once; with no region, the aggregate row is the only data row.
C5_HeaderAndRowCount ==
    Written =>
        /\ file[1] = Header
        /\ Len(file) - 1 = Cardinality(ProviderInstances) + 1
        /\ \A p \in ProviderInstances :
             Cardinality({k \in 2..Len(file) : file[k][1] = "EC2" /\ RowOf(file[k], p)}) = 1
        /\ all_regions = <<>> => Len(file) = 2 /\ file[2][1] = "S3"

C5_Witness ==
    /\ Written
    /\ calls[1].response.Regions = <<>>
    /\ Len(file) = 2
    /\ file[1] = Header
    /\ file[2][1] = "S3"

\* C6: the accrued cost of an instance row is 0 unless the instance is
\* running, and for a running instance it is the hourly price times the day
\* of the month times 24, rounded to 4 decimals; the hourly price is 0.0116
\* for t2.micro and 0.1216 for any other type.
C6_AccruedCost ==
    \A k \in InstanceRows :
        LET row == all_data[k]
        IN  /\ FromProvider(row)
            /\ row[6] = TableRate(row[4])
            /\ row[5] # "running" => row[7] = 0
            /\ row[5] = "running" =>
                 IsRound4Of(row[7], row[6] * current_day * HoursPerDay)

C6_Witness ==
    /\ current_day = 10
    /\ days_in_month = 30
    /\ \E j, k \in InstanceRows :
        /\ all_data[j][4] = "t2.micro"
        /\ all_data[j][5] = "running"
        /\ all_data[j][7] = 2784000
        /\ all_data[k][4] = "m5.large"
        /\ all_data[k][5] = "stopped"
        /\ all_data[k][6] = DefaultRate
        /\ all_data[k][7] = 0

\* C7: the predicted cost of an instance row is the hourly price times the
\* days in the month times 24, rounded to 4 decimals, whatever the state: rows
\* of the same type have the same predicted cost, and a running instance's
\* accrued cost does not exceed its predicted cost.
C7_PredictedCost ==
    /\ \A k \in InstanceRows :
        LET row == all_data[k]
        IN  /\ row[6] = TableRate(row[4])
            /\ IsRound4Of(row[8], row[6] * days_in_month * HoursPerDay)
            /\ row[5] = "running" => row[7] <= row[8]
    /\ \A j, k \in InstanceRows :
        all_data[j][4] = all_data[k][4] => all_data[j][8] = all_data[k][8]

C7_Witness ==
    /\ current_day = 10
    /\ days_in_month = 30
    /\ \E j, k \in InstanceRows :
        /\ all_data[j][4] = "t2.micro"
        /\ all_data[k][4] = "t2.micro"
        /\ all_data[j][5] = "running"
        /\ all_data[k][5] = "stopped"
        /\ all_data[j][8] = 8352000
        /\ all_data[k][8] = 8352000
        /\ all_data[j][7] < all_data[j][8]

\* C8: remaining_days is days_in_month minus the day of the month when that
\* day is at most days_in_month, 0 when it is larger, never negative; the
\* window never changes during the run and every instance row is computed
\* from its day and its days_in_month.
C8_WindowState ==
    /\ remaining_days >= 0
    /\ current_day <= days_in_month => remaining_days = days_in_month - current_day
    /\ current_day > days_in_month => remaining_days = 0
    /\ \A k \in InstanceRows :
        LET row == all_data[k]
        IN  /\ IsRound4Of(row[8], row[6] * days_in_month * HoursPerDay)
            /\ row[7] \in {0, row[6] * current_day * HoursPerDay}

\* C8, in full: the window satisfies the above in every state and no step of
\* the run changes it.
C8_BillingWindow ==
    /\ []C8_WindowState
    /\ [][/\ current_day' = current_day
          /\ days_in_month' = days_in_month
          /\ remaining_days' = remaining_days]_vars

C8_Witness ==
    /\ pc = "done"
    /\ current_day = 28
    /\ days_in_month = 31
    /\ remaining_days = 3
    /\ Cardinality(InstanceRows) = 2
    /\ \E k \in InstanceRows : all_data[k][7] = all_data[k][6] * 28 * HoursPerDay

\* C9: a written report has exactly one aggregate row, the S3 row, with
\* region "All Regions", resource id "N/A", hourly price 0 and accrued cost
\* equal to predicted cost: the amount the billing provider returned rounded
\* to 4 decimals, or 0.0 if the lookup failed.
C9_AggregateRow ==
    Written =>
        /\ Cardinality(BillingCalls) = 1
        /\ Cardinality({k \in 2..Len(file) : file[k][1] # "EC2"}) = 1
        /\ \A k \in 2..Len(file) : file[k][1] # "EC2" =>
             LET row == file[k]
                 response == calls[CHOOSE b \in BillingCalls : TRUE].response
             IN  /\ row[1] = "S3"
                 /\ row[2] = "All Regions"
                 /\ row[3] = "N/A"
                 /\ row[6] = 0
                 /\ row[7] = row[8]
                 /\ response.kind = "ok" => IsRound4Of(row[8], response.Amount)
                 /\ response.kind # "ok" => row[8] = 0

C9_Witness ==
    /\ Written
    /\ \E b \in BillingCalls :
         calls[b].response.kind = "ok" /\ calls[b].response.Amount = 12345651
    /\ file[Len(file)][1] = "S3"
    /\ file[Len(file)][7] = 12345700
    /\ file[Len(file)][8] = 12345700

\* C10: the calls of a run come in a fixed order: the region enumeration,
\* one instance listing per region in turn, one billing query, one write of
\* the file.  The file is written at most once, after every region was listed
\* and the billing lookup returned; a run that an inventory failure ends has
\* not queried the billing provider and has left the previous file as it was.
Rank(op) ==
    CASE op = "describe_regions" -> 1
      [] op = "describe_instances" -> 2
      [] op = "get_cost_and_usage" -> 3
      [] op = "write_csv" -> 4

C10_StepOrder ==
    /\ \A i, j \in DOMAIN calls : i < j => Rank(calls[i].op) <= Rank(calls[j].op)
    /\ calls # <<>> => calls[1].op = "describe_regions"
    /\ Cardinality(CallsOf({"describe_regions"})) <= 1
    /\ Cardinality(BillingCalls) <= 1
    /\ Cardinality(WriteCalls) <= 1
    /\ \A c \in ListingCalls : calls[c].region = all_regions[c - 1]
    /\ BillingCalls # {} =>
         /\ Cardinality(ListingCalls) = Len(all_regions)
         /\ \A i \in InventoryCalls : ~Failed(i)
    /\ WriteCalls # {} => BillingCalls # {} /\ pc = "done"
    /\ Written <=> WriteCalls # {}
    /\ pc = "crashed" => BillingCalls = {} /\ WriteCalls = {} /\ file = PrevFile

C10_Witness ==
    /\ pc = "crashed"
    /\ Len(calls) = 3
    /\ Failed(3)
    /\ Len(all_data) = 2
    /\ file = PrevFile

====
